---------------------------- MODULE Spec2Model ----------------------------
(***************************************************************************)
(* Model of src/main.py: a FastAPI backend that proxies Jira Cloud.       *)
(*                                                                         *)
(* The process-global dict user_tokens maps a user id to a session dict.  *)
(* Python dicts are objects: user_tokens holds references, so the model   *)
(* keeps the session dicts in heap and user_tokens maps a key to an index *)
(* of heap.                                                                *)
(*                                                                         *)
(* Scheduling.  The route handlers are "async def" and call the blocking  *)
(* requests library, so a handler holds the event loop from its start to  *)
(* its next await (set_project awaits request.json(), oauth_callback      *)
(* awaits nothing).  get_auth_headers is a plain "def" used with Depends: *)
(* FastAPI runs it on a worker thread, so its statements interleave with  *)
(* whatever the event loop is running.  loop names the handler that holds *)
(* the event loop.                                                         *)
(***************************************************************************)
EXTENDS Integers, Sequences, FiniteSets, TLC

VARIABLES user_tokens, heap, stored, loop, cb, sp, rq, callbacks,
          tokens_issued, uuids, fw, ex

vars == <<user_tokens, heap, stored, loop, cb, sp, rq, callbacks,
          tokens_issued, uuids, fw, ex>>

store == <<user_tokens, heap, stored>>
counters == <<callbacks, tokens_issued, uuids>>
session_vars == <<store, loop, cb, sp, rq, counters>>
stateless == <<fw, ex>>

(* ------------------------------ bounds -------------------------------- *)
\* The number of oauth_callback calls of a run.
MaxLogins == 2

(* ------------------------------ values -------------------------------- *)
\* Python's None, for a missing query parameter, body field or dict key.
None == "<None>"

\* Python truthiness of an optional string: None and "" are falsy.
Falsy(x) == x = None \/ x = ""

Users == {"u1", "u2"}

\* The accessible-resources lists the upstream may answer (ids of the sites).
CloudLists == {<< >>, <<"c1">>, <<"c2", "c1">>}

\* Statuses and error bodies of the token endpoint.
TokenStatuses == {200, 400, 403}
ErrorBodies == {"invalid_grant", "access_denied"}

ProjectKeys == {None, "", "PROJ"}

TOKEN_URL == "https://auth.atlassian.com/oauth/token"
USER_API_URL == "https://api.atlassian.com/me"
RESOURCE_API == "https://api.atlassian.com/oauth/token/accessible-resources"

Free == << >>

(* ------------------------------ helpers ------------------------------- *)
DictSet_replace(d, k, v) == [x \in {k} |-> v]

\* d[k] = v on a dict held as a function.
DictSet(d, k, v) == [x \in (DOMAIN d) \cup {k} |-> IF x = k THEN v ELSE d[x]]

\* f"user_{uuid.uuid4()}": a key no earlier call produced.
FreshUuidKey == "user_" \o ToString(uuids + 1)

CloudIdOf_last(cloud_info) == cloud_info[Len(cloud_info)]

\* cloud_id = cloud_info[0]["id"]
CloudIdOf(cloud_info) == cloud_info[1]

\* base_url = f"https://api.atlassian.com/ex/jira/{cloud_id}"
BaseUrlOf(cloud_id) == "https://api.atlassian.com/ex/jira/" \o cloud_id

NewSession_keeps(access_token, cloud_id, base_url) ==
    [access_token |-> access_token, cloud_id |-> cloud_id,
     base_url |-> base_url,
     project_key |-> IF cb.user_id \in DOMAIN user_tokens
                       THEN heap[user_tokens[cb.user_id]].project_key
                       ELSE None]

\* The dict literal oauth_callback stores: it has no "project_key" key.
NewSession(access_token, cloud_id, base_url) ==
    [access_token |-> access_token, cloud_id |-> cloud_id,
     base_url |-> base_url, project_key |-> None]

(* ------------------------------- Init --------------------------------- *)
CbIdle ==
    [pc |-> "idle", code |-> None, token_status |-> 0, access_token |-> 0,
     user_id |-> None, cloud_info |-> << >>, cloud_id |-> None,
     base_url |-> None, status |-> 0, content |-> None, upstream |-> None,
     calls |-> << >>, wrote |-> 0]

SpIdle == [pc |-> "idle", uid |-> None, project_key |-> None, status |-> 0]

\* No proxied call and no export call has been made.
NoCall == [route |-> "none"]

\* One call of a stateless handler is followed from its request to its answer.
Idle == fw = NoCall /\ ex = NoCall

RqIdle ==
    [pc |-> "idle", uid |-> None, data |-> 0, tok |-> 0, base |-> None,
     pk |-> None, status |-> 0, detail |-> None]

SessionInit ==
    /\ user_tokens = [x \in {} |-> 0]
    /\ heap = << >>
    /\ stored = << >>
    /\ loop = Free
    /\ cb = CbIdle
    /\ sp = SpIdle
    /\ rq = RqIdle
    /\ callbacks = 0
    /\ tokens_issued = 0
    /\ uuids = 0

Init == SessionInit /\ fw = NoCall /\ ex = NoCall

(* --------------------------- oauth_callback --------------------------- *)
MissingCode_none(code) == code = None

\* Line 113: "if not code".
MissingCode(code) == Falsy(code)

\* Lines 112-114: read the code; a missing code is answered 400.
oauth_callback_start(code) ==
    /\ loop = Free
    /\ cb.pc \in {"idle", "done"}
    /\ callbacks < MaxLogins
    /\ callbacks' = callbacks + 1
    /\ IF MissingCode(code)
         THEN /\ cb' = [CbIdle EXCEPT !.pc = "done", !.code = code,
                                      !.status = 400,
                                      !.content = "Missing code"]
              /\ loop' = Free
         ELSE /\ cb' = [CbIdle EXCEPT !.pc = "exchange", !.code = code]
              /\ loop' = <<"oauth_callback">>
    /\ UNCHANGED <<store, sp, rq, tokens_issued, uuids, stateless>>

\* Lines 115-126: POST the code to TOKEN_URL; a status other than 200 is
\* answered with that status and the upstream JSON body.
oauth_callback_exchange(st, body) ==
    /\ cb.pc = "exchange"
    /\ IF st # 200
         THEN /\ cb' = [cb EXCEPT !.pc = "done", !.token_status = st,
                                  !.upstream = body,
                                  !.calls = Append(@, TOKEN_URL),
                                  !.status = st, !.content = body]
              /\ loop' = Free
              /\ UNCHANGED tokens_issued
         ELSE /\ cb' = [cb EXCEPT !.pc = "me", !.token_status = st,
                                  !.calls = Append(@, TOKEN_URL),
                                  !.access_token = tokens_issued + 1]
              /\ tokens_issued' = tokens_issued + 1
              /\ UNCHANGED loop
    /\ UNCHANGED <<store, sp, rq, callbacks, uuids, stateless>>

\* Lines 127-128: GET USER_API_URL; the key is the account_id, or a fresh
\* "user_<uuid>" when the answer has none.
oauth_callback_me(account_id) ==
    /\ cb.pc = "me"
    /\ IF account_id = None
         THEN /\ cb' = [cb EXCEPT !.pc = "resources",
                                  !.calls = Append(@, USER_API_URL),
                                  !.user_id = FreshUuidKey]
              /\ uuids' = uuids + 1
         ELSE /\ cb' = [cb EXCEPT !.pc = "resources",
                                  !.calls = Append(@, USER_API_URL),
                                  !.user_id = account_id]
              /\ UNCHANGED uuids
    /\ UNCHANGED <<store, loop, sp, rq, callbacks, tokens_issued, stateless>>

\* Lines 129-133: GET RESOURCE_API; an empty list is answered 400, else the
\* cloud id is the id of the first resource.
oauth_callback_resources(cloud_info) ==
    /\ cb.pc = "resources"
    /\ IF cloud_info = << >>
         THEN /\ cb' = [cb EXCEPT !.pc = "done",
                                  !.calls = Append(@, RESOURCE_API),
                                  !.cloud_info = cloud_info,
                                  !.status = 400,
                                  !.content = "No accessible Jira site found"]
              /\ loop' = Free
         ELSE /\ cb' = [cb EXCEPT !.pc = "write",
                                  !.calls = Append(@, RESOURCE_API),
                                  !.cloud_info = cloud_info,
                                  !.cloud_id = CloudIdOf(cloud_info),
                                  !.base_url = BaseUrlOf(CloudIdOf(cloud_info))]
              /\ UNCHANGED loop
    /\ UNCHANGED <<store, sp, rq, counters, stateless>>

\* Lines 134-145: user_tokens[user_id] = {...}, then the 200 page.
oauth_callback_write ==
    /\ cb.pc = "write"
    /\ heap' = Append(heap, NewSession(cb.access_token, cb.cloud_id,
                                       cb.base_url))
    /\ user_tokens' = DictSet(user_tokens, cb.user_id, Len(heap) + 1)
    /\ stored' = Append(stored, [user_id |-> cb.user_id,
                                 access_token |-> cb.access_token,
                                 cloud_id |-> cb.cloud_id,
                                 base_url |-> cb.base_url, by |-> callbacks])
    /\ cb' = [cb EXCEPT !.pc = "done", !.status = 200,
                        !.content = "Jira OAuth Login Successful",
                        !.wrote = Len(heap) + 1]
    /\ loop' = Free
    /\ UNCHANGED <<sp, rq, counters, stateless>>

(* ----------------------------- set_project ---------------------------- *)
\* Lines 164-167: the session check, up to the await of the body.
set_project_start(x_user_id) ==
    /\ loop = Free
    /\ sp.pc \in {"idle", "done"}
    /\ IF Falsy(x_user_id) \/ x_user_id \notin DOMAIN user_tokens
         THEN sp' = [SpIdle EXCEPT !.pc = "done", !.uid = x_user_id,
                                   !.status = 401]
         ELSE sp' = [SpIdle EXCEPT !.pc = "await_body", !.uid = x_user_id]
    /\ UNCHANGED <<store, loop, cb, rq, counters, stateless>>

SetProjectKey_all(k, project_key) ==
    [i \in DOMAIN heap |-> [heap[i] EXCEPT !.project_key = project_key]]

\* The session dict of key k with its project_key set: line 171.
SetProjectKey(k, project_key) ==
    [heap EXCEPT ![user_tokens[k]].project_key = project_key]

\* Lines 167-172: the body arrives; a missing or empty project_key is
\* answered 400, else the key is stored in the session user_tokens holds now.
set_project_body(project_key) ==
    /\ loop = Free
    /\ sp.pc = "await_body"
    /\ IF Falsy(project_key)
         THEN /\ sp' = [sp EXCEPT !.pc = "done",
                                  !.project_key = project_key,
                                  !.status = 400]
              /\ UNCHANGED heap
         ELSE /\ sp' = [sp EXCEPT !.pc = "done",
                                  !.project_key = project_key,
                                  !.status = 200]
              /\ heap' = SetProjectKey(sp.uid, project_key)
    /\ UNCHANGED <<user_tokens, stored, loop, cb, rq, counters, stateless>>

(* --------------------- get_auth_headers and a route ------------------- *)
MISSING_USER == "Missing user_id. Please log in via /oauth/login."
NO_SESSION == "Session expired or user not authenticated."
NO_PROJECT == "Project key not set. Please call /set-project first."

Reject(status, detail) ==
    [rq EXCEPT !.pc = "rejected", !.status = status, !.detail = detail]

\* The locals of a call that has just read its user_id.
Arrived(x_user_id) == [RqIdle EXCEPT !.uid = x_user_id]

\* Lines 148-150: a gated request arrives; its user_id is read.
gah_user_id(x_user_id) ==
    /\ rq.pc \in {"idle", "rejected", "sent"}
    /\ IF Falsy(x_user_id)
         THEN rq' = [Arrived(x_user_id) EXCEPT !.pc = "rejected",
                                               !.status = 401,
                                               !.detail = MISSING_USER]
         ELSE rq' = [Arrived(x_user_id) EXCEPT !.pc = "check_session"]
    /\ UNCHANGED <<store, loop, cb, sp, counters, stateless>>

\* Lines 151-152.
gah_check_session ==
    /\ rq.pc = "check_session"
    /\ IF rq.uid \notin DOMAIN user_tokens
         THEN rq' = Reject(401, NO_SESSION)
         ELSE rq' = [rq EXCEPT !.pc = "read_data"]
    /\ UNCHANGED <<store, loop, cb, sp, counters, stateless>>

\* Line 153: data = user_tokens[x_user_id], a reference to the session dict.
gah_read_data ==
    /\ rq.pc = "read_data"
    /\ rq' = [rq EXCEPT !.pc = "check_project",
                        !.data = user_tokens[rq.uid]]
    /\ UNCHANGED <<store, loop, cb, sp, counters, stateless>>

NoProjectKey_never == FALSE

\* Line 154: "if not data.get('project_key')".
NoProjectKey == Falsy(heap[rq.data].project_key)

\* Lines 154-155.
gah_check_project ==
    /\ rq.pc = "check_project"
    /\ IF NoProjectKey
         THEN rq' = Reject(400, NO_PROJECT)
         ELSE rq' = [rq EXCEPT !.pc = "read_token"]
    /\ UNCHANGED <<store, loop, cb, sp, counters, stateless>>

\* The three reads of the return statement, lines 156-160, each through data.
ReadAccessToken == heap[rq.data].access_token

ReadBaseUrl_relookup == heap[user_tokens[rq.uid]].base_url
ReadBaseUrl == heap[rq.data].base_url
ReadProjectKey == heap[rq.data].project_key

gah_read_token ==
    /\ rq.pc = "read_token"
    /\ rq' = [rq EXCEPT !.pc = "read_base", !.tok = ReadAccessToken]
    /\ UNCHANGED <<store, loop, cb, sp, counters, stateless>>

gah_read_base ==
    /\ rq.pc = "read_base"
    /\ rq' = [rq EXCEPT !.pc = "route", !.base = ReadBaseUrl,
                        !.pk = ReadProjectKey]
    /\ UNCHANGED <<store, loop, cb, sp, counters, stateless>>

\* The route handler runs on the event loop with what the dependency
\* returned and sends its request to base_url with the bearer token
\* (lines 177-179, 192-196, 408-410).
route_forward ==
    /\ loop = Free
    /\ rq.pc = "route"
    /\ rq' = [rq EXCEPT !.pc = "sent"]
    /\ UNCHANGED <<store, loop, cb, sp, counters, stateless>>

\* The user ids a client may send: absent, empty, an account, a stored key.
RequestUserIds == {None, ""} \cup Users \cup DOMAIN user_tokens

(* ------------------------------ strings ------------------------------- *)
\* The text the filters inspect is held as a sequence of characters.
UpperCase ==
    <<"A", "B", "C", "D", "E", "F", "G", "H", "I", "J", "K", "L", "M",
      "N", "O", "P", "Q", "R", "S", "T", "U", "V", "W", "X", "Y", "Z">>
LowerCase ==
    <<"a", "b", "c", "d", "e", "f", "g", "h", "i", "j", "k", "l", "m",
      "n", "o", "p", "q", "r", "s", "t", "u", "v", "w", "x", "y", "z">>

\* The lower-case letter of each upper-case letter.
ToLower == [c \in {UpperCase[i] : i \in 1..26} |->
               LowerCase[CHOOSE i \in 1..26 : UpperCase[i] = c]]

LowerChar(c) == IF c \in DOMAIN ToLower THEN ToLower[c] ELSE c

\* str.lower()
Lower(t) == [i \in 1..Len(t) |-> LowerChar(t[i])]

\* "word in text": word occurs in text as a substring.
Contains(text, word) ==
    \E i \in 0..(Len(text) - Len(word)) :
        SubSeq(text, i + 1, i + Len(word)) = word

RECURSIVE SplitFrom(_, _, _)
SplitFrom(t, sep, acc) ==
    IF t = << >> THEN <<acc>>
    ELSE IF Head(t) = sep THEN <<acc>> \o SplitFrom(Tail(t), sep, << >>)
    ELSE SplitFrom(Tail(t), sep, Append(acc, Head(t)))

\* str.split(sep) for a one-character sep.
Split(t, sep) == SplitFrom(t, sep, << >>)

(* ----------------------------- jql_search ----------------------------- *)
MaxIssues == 2

IssueKeys == {"PROJ-1", "PROJ-2"}

\* issuetype names the upstream may give.
TypeNames ==
    {<<"E", "p", "i", "c">>, <<"P", "A", "R", "E", "N", "T">>,
     <<"S", "t", "o", "r", "y">>}

\* A description is null, a string, or an Atlassian Document Format dict.
Descriptions ==
    {[kind |-> "null", text |-> << >>],
     [kind |-> "str",
      text |-> <<"V", "e", "r", "i", "f", "y", " ", "i", "t">>],
     [kind |-> "str", text |-> <<"p", "l", "a", "n">>],
     [kind |-> "adf", text |-> <<"u", "n", "t", "e", "s", "t", "e", "d">>]}

Issues ==
    [key : IssueKeys, issuetype : TypeNames, description : Descriptions,
     summary : {"summary"}]

IssueLists == UNION {[1..n -> Issues] : n \in 0..MaxIssues}

SourceTickets == {None, "", "PROJ-1"}

UpstreamStatuses == {200, 204, 401, 404, 500}

\* "not description": None, "" and an empty dict are falsy.
NoDescription(d) == d.kind = "null" \/ (d.kind = "str" /\ d.text = << >>)

\* str(description) of a dict: its repr, which holds the text of its nodes.
ReprOfDict(d) ==
    <<"{", "'", "t", "e", "x", "t", "'", ":", " ", "'">> \o d.text
        \o <<"'", "}">>

\* Line 393.
TextOf(d) == IF d.kind = "str" THEN d.text ELSE ReprOfDict(d)

\* Line 394.
logic_keywords ==
    <<<<"v", "e", "r", "i", "f", "y">>, <<"c", "h", "e", "c", "k">>,
      <<"v", "a", "l", "i", "d", "a", "t", "e">>, <<"f", "l", "o", "w">>,
      <<"t", "e", "s", "t">>, <<"s", "h", "o", "u", "l", "d">>>>

\* Line 395: any(word in text.lower() for word in logic_keywords)
HasLogicKeyword(d) ==
    LET text == Lower(TextOf(d))
    IN  \E w \in 1..Len(logic_keywords) : Contains(text, logic_keywords[w])

\* Line 386: the lower-cased issue type name.
IssueTypeOf(i) == Lower(i.issuetype)

IsSourceTicket_never(key, source_ticket_key) == FALSE

\* Line 384: "source_ticket_key and key == source_ticket_key".
IsSourceTicket(key, source_ticket_key) ==
    ~Falsy(source_ticket_key) /\ key = source_ticket_key

IsEpicOrParent_exact(i) ==
    i.issuetype \in {<<"e", "p", "i", "c">>, <<"p", "a", "r", "e", "n", "t">>}

\* Line 390: issue_type in ["epic", "parent"].
IsEpicOrParent(i) ==
    IssueTypeOf(i) \in
        {<<"e", "p", "i", "c">>, <<"p", "a", "r", "e", "n", "t">>}

\* Lines 383-396: the issue reaches the append of line 398.
Appended(i, source_ticket_key) ==
    IF IsSourceTicket(i.key, source_ticket_key) THEN FALSE
    ELSE IF IsEpicOrParent(i)
      THEN IF NoDescription(i.description) THEN FALSE
           ELSE HasLogicKeyword(i.description)
      ELSE TRUE

\* Line 398.
Reshaped(i) ==
    [key |-> i.key, summary |-> i.summary, description |-> i.description]

\* Lines 381-399: the loop over the upstream issues, in their order.
RECURSIVE FilterIssues(_, _)
FilterIssues(upstream_issues, source_ticket_key) ==
    IF upstream_issues = << >> THEN << >>
    ELSE LET i == Head(upstream_issues)
             rest == FilterIssues(Tail(upstream_issues), source_ticket_key)
         IN  IF Appended(i, source_ticket_key)
               THEN <<Reshaped(i)>> \o rest
               ELSE rest

\* Response.raise_for_status(): an HTTPError for a 4xx or 5xx status.
RaisesForStatus(status_code) == status_code >= 400 /\ status_code < 600

\* An upstream answer: its status, whether its body parses as JSON, and the
\* issues of a search answer.
Upstream(status_code, json_ok, upstream_issues) ==
    [status_code |-> status_code, json_ok |-> json_ok,
     issues |-> upstream_issues]

Answer(status, body) == [status |-> status, body |-> body]

\* Lines 375-404; a list is sent by FastAPI as a 200 JSON answer.
jql_search(res, source_ticket_key) ==
    IF RaisesForStatus(res.status_code)
      THEN Answer(500, "Jira JQL search failed")
    ELSE IF ~res.json_ok
      THEN Answer(500, "Invalid JSON returned by Jira")
    ELSE Answer(200, FilterIssues(res.issues, source_ticket_key))

(* --------------------------- proxying routes -------------------------- *)
\* Line 198: status_code=issue_res.status_code.
PassThrough(status_code) == status_code

TryJson_passthrough(res, ok_status, error) ==
    IF res.status_code # 200 /\ res.status_code # 204
      THEN Answer(res.status_code, error)
    ELSE IF ~res.json_ok THEN Answer(500, "Invalid JSON")
    ELSE Answer(ok_status, "json")

\* try: raise_for_status(); return res.json()
\* except RequestException: 500; except ValueError: 500.
TryJson(res, ok_status, error) ==
    IF RaisesForStatus(res.status_code) THEN Answer(500, error)
    ELSE IF ~res.json_ok THEN Answer(500, "Invalid JSON")
    ELSE Answer(ok_status, "json")

Called(route, res, source_ticket_key, answer) ==
    [route |-> route, upstream |-> res, source |-> source_ticket_key,
     answer |-> answer]

\* Lines 175-187.
get_projects(res) ==
    /\ Idle
    /\ fw' = Called("get_projects", res, None,
                    TryJson(res, 200, "Jira API request failed"))
    /\ UNCHANGED <<session_vars, ex>>

\* Lines 190-229: a status other than 200 of the issue lookup is answered
\* with that status; a 200 whose body does not parse raises out of the
\* handler, which the server answers 500.
fetch_ticket(res) ==
    /\ Idle
    /\ fw' = Called("fetch_ticket", res, None,
                    IF res.status_code # 200
                      THEN Answer(PassThrough(res.status_code), "error")
                    ELSE IF ~res.json_ok
                      THEN Answer(500, "Internal Server Error")
                    ELSE Answer(200, "json"))
    /\ UNCHANGED <<session_vars, ex>>

\* Lines 272-294.
create_ticket(res) ==
    /\ Idle
    /\ fw' = Called("create_ticket", res, None,
                    TryJson(res, 200, "Failed to create ticket"))
    /\ UNCHANGED <<session_vars, ex>>

\* Lines 297-321: a 204 is answered with a message, without parsing.
update_ticket(res) ==
    /\ Idle
    /\ fw' = Called("update_ticket", res, None,
                    IF res.status_code = 204
                      THEN Answer(200, "Ticket updated successfully")
                      ELSE TryJson(res, 200, "Failed to update ticket"))
    /\ UNCHANGED <<session_vars, ex>>

\* Lines 324-334.
get_comments(res) ==
    /\ Idle
    /\ fw' = Called("get_comments", res, None,
                    TryJson(res, 200, "Failed to fetch comments"))
    /\ UNCHANGED <<session_vars, ex>>

\* Lines 337-354.
add_comment(res) ==
    /\ Idle
    /\ fw' = Called("add_comment", res, None,
                    TryJson(res, 200, "Failed to add comment"))
    /\ UNCHANGED <<session_vars, ex>>

\* Lines 357-372: the body of the answer is not parsed.
update_comment(res) ==
    /\ Idle
    /\ fw' = Called("update_comment", res, None,
                    IF RaisesForStatus(res.status_code)
                      THEN Answer(500, "Failed to update comment")
                      ELSE Answer(200, "Comment updated"))
    /\ UNCHANGED <<session_vars, ex>>

\* Lines 406-410.
get_impact_by_label(res, source_ticket) ==
    /\ Idle
    /\ fw' = Called("get_impact_by_label", res, source_ticket,
                    jql_search(res, source_ticket))
    /\ UNCHANGED <<session_vars, ex>>

\* Lines 412-416.
get_impact_by_component(res, source_ticket) ==
    /\ Idle
    /\ fw' = Called("get_impact_by_component", res, source_ticket,
                    jql_search(res, source_ticket))
    /\ UNCHANGED <<session_vars, ex>>

\* Lines 418-422.
get_impact_by_module(res, source_ticket) ==
    /\ Idle
    /\ fw' = Called("get_impact_by_module", res, source_ticket,
                    jql_search(res, source_ticket))
    /\ UNCHANGED <<session_vars, ex>>

\* Lines 424-427: no source_ticket_key is passed.
get_tickets_by_sprint(res) ==
    /\ Idle
    /\ fw' = Called("get_tickets_by_sprint", res, None,
                    jql_search(res, None))
    /\ UNCHANGED <<session_vars, ex>>

\* Lines 429-432: no source_ticket_key is passed.
get_tickets_by_priority(res) ==
    /\ Idle
    /\ fw' = Called("get_tickets_by_priority", res, None,
                    jql_search(res, None))
    /\ UNCHANGED <<session_vars, ex>>

\* The answers of the upstream to a request that is not a search.
PlainAnswers ==
    {Upstream(st, j, << >>) : st \in UpstreamStatuses, j \in BOOLEAN}

\* The answers of the upstream to a search: issues come with a 200.
SearchAnswers ==
    PlainAnswers \cup {Upstream(200, TRUE, l) : l \in IssueLists}

(* ------------------------------- exports ------------------------------ *)
MaxText == 3

\* The characters of an 'output' text: a letter, a comma, a line break.
TextChars == {"a", ",", "\n"}

Texts == UNION {[1..n -> TextChars] : n \in 0..MaxText}

\* A request body: with or without an 'output' field.
Bodies == {[has_output |-> h, output |-> t] : h \in {TRUE}, t \in Texts}
            \cup {[has_output |-> FALSE, output |-> << >>]}

\* The names the import statements of lines 2-26 bind in the module.
ImportedNames ==
    {"os", "sys", "csv", "uuid", "tempfile", "logging", "urllib",
     "datetime", "BytesIO", "requests", "RequestException", "FastAPI",
     "Request", "HTTPException", "Depends", "RedirectResponse",
     "JSONResponse", "HTMLResponse", "StreamingResponse", "Response",
     "CORSMiddleware", "openpyxl", "PdfReader", "Document"}

\* A global name resolves when an import bound it; else NameError.
IsBound(name) == name \in ImportedNames

\* data.get("output", "")
OutputOf(data) == IF data.has_output THEN data.output ELSE << >>

FileAnswer(status, media_type, lines) ==
    [status |-> status, media_type |-> media_type, lines |-> lines]

\* Lines 435-457.
generate_docx(data) ==
    /\ Idle
    /\ LET text == OutputOf(data)
       IN  ex' = [route |-> "generate_docx", data |-> data, answer |->
                    IF text = << >>
                      THEN FileAnswer(400, "application/json", << >>)
                    ELSE IF ~IsBound("Document") \/ ~IsBound("BytesIO")
                           \/ ~IsBound("StreamingResponse")
                      THEN FileAnswer(500, "application/json", << >>)
                    ELSE FileAnswer(200, "application/vnd.openxmlformats-officedocument.wordprocessingml.document",
                                    Split(text, "\n"))]
    /\ UNCHANGED <<session_vars, fw>>

\* Lines 460-481: the try block starts with StringIO(), and "except
\* Exception" turns whatever the block raises into a 500.
generate_csv(data) ==
    /\ Idle
    /\ LET text == OutputOf(data)
       IN  ex' = [route |-> "generate_csv", data |-> data, answer |->
                    IF text = << >>
                      THEN FileAnswer(400, "application/json", << >>)
                    ELSE IF ~IsBound("StringIO") \/ ~IsBound("csv")
                           \/ ~IsBound("BytesIO")
                           \/ ~IsBound("StreamingResponse")
                      THEN FileAnswer(500, "application/json", << >>)
                    ELSE FileAnswer(200, "text/csv", Split(text, "\n"))]
    /\ UNCHANGED <<session_vars, fw>>

(* ------------------------------ the rest ------------------------------ *)
Next ==
    \/ \E code \in {None, "", "code"} :
          oauth_callback_start(code)
    \/ \E st \in TokenStatuses, body \in ErrorBodies :
          oauth_callback_exchange(st, body)
    \/ \E a \in Users \cup {None} : oauth_callback_me(a)
    \/ \E ci \in CloudLists : oauth_callback_resources(ci)
    \/ oauth_callback_write
    \/ \E u \in RequestUserIds : set_project_start(u)
    \/ \E k \in ProjectKeys : set_project_body(k)
    \/ \E u \in RequestUserIds : gah_user_id(u)
    \/ gah_check_session
    \/ gah_read_data
    \/ gah_check_project
    \/ gah_read_token
    \/ gah_read_base
    \/ route_forward

Spec == Init /\ [][Next]_vars

\* The handlers that keep no state: one call, with every upstream answer.
NextHandlers ==
    \/ Idle /\ \E res \in PlainAnswers : get_projects(res)
    \/ Idle /\ \E res \in PlainAnswers : fetch_ticket(res)
    \/ Idle /\ \E res \in PlainAnswers : create_ticket(res)
    \/ Idle /\ \E res \in PlainAnswers : update_ticket(res)
    \/ Idle /\ \E res \in PlainAnswers : get_comments(res)
    \/ Idle /\ \E res \in PlainAnswers : add_comment(res)
    \/ Idle /\ \E res \in PlainAnswers : update_comment(res)
    \/ Idle /\ \E res \in SearchAnswers, src \in SourceTickets :
             get_impact_by_label(res, src)
    \/ Idle /\ \E res \in SearchAnswers, src \in SourceTickets :
             get_impact_by_component(res, src)
    \/ Idle /\ \E res \in SearchAnswers, src \in SourceTickets :
             get_impact_by_module(res, src)
    \/ Idle /\ \E res \in SearchAnswers : get_tickets_by_sprint(res)
    \/ Idle /\ \E res \in SearchAnswers : get_tickets_by_priority(res)
    \/ Idle /\ \E data \in Bodies : generate_docx(data)
    \/ Idle /\ \E data \in Bodies : generate_csv(data)

SpecHandlers == Init /\ [][NextHandlers]_vars

(* ====================== claims on the session store =================== *)
IsPrefix(a, b) == Len(a) <= Len(b) /\ a = SubSeq(b, 1, Len(a))

CallbackCalls == <<TOKEN_URL, USER_API_URL, RESOURCE_API>>

\* C1: oauth_callback calls the token endpoint, then the user endpoint, then
\* the resources endpoint, then writes the session; a session is written
\* only after a 200 token exchange and a non-empty resources list, and it
\* holds the token of that exchange, the id of the first resource and
\* base_url = "https://api.atlassian.com/ex/jira/" + cloud_id.
C1_CallbackOrderAndEntry ==
    /\ IsPrefix(cb.calls, CallbackCalls)
    /\ cb.pc = "write" => cb.calls = CallbackCalls /\ cb.wrote = 0
    /\ cb.wrote # 0 =>
          /\ cb.pc = "done" /\ cb.status = 200
          /\ cb.calls = CallbackCalls
          /\ cb.token_status = 200
          /\ cb.cloud_info # << >>
          /\ cb.access_token = tokens_issued
          /\ cb.wrote = Len(heap)
          /\ user_tokens[cb.user_id] = cb.wrote
          /\ heap[cb.wrote].access_token = cb.access_token
          /\ heap[cb.wrote].cloud_id = cb.cloud_info[1]
          /\ heap[cb.wrote].base_url =
                "https://api.atlassian.com/ex/jira/" \o cb.cloud_info[1]
    /\ Len(heap) = Len(stored)
    /\ \A k \in DOMAIN user_tokens :
          /\ user_tokens[k] \in 1..Len(heap)
          /\ stored[user_tokens[k]].user_id = k

C1_Witness ==
    /\ cb.wrote # 0
    /\ Len(cb.cloud_info) = 2
    /\ heap[cb.wrote].cloud_id = "c2"

\* C2: the token and base_url get_auth_headers returns for user_id u were
\* stored together by one successful oauth_callback for u.
C2_CredentialsOfOneLogin ==
    rq.pc \in {"route", "sent"} =>
        \E i \in 1..Len(stored) :
            /\ stored[i].user_id = rq.uid
            /\ stored[i].access_token = rq.tok
            /\ stored[i].base_url = rq.base

\* A request that was served from a session a later login of the same user
\* has replaced, on another site.
C2_Witness ==
    /\ rq.pc = "sent"
    /\ user_tokens[rq.uid] # rq.data
    /\ heap[user_tokens[rq.uid]].base_url # rq.base

\* C3: no step removes a key of user_tokens.
C3_KeysOnlyGrow ==
    [][DOMAIN user_tokens \subseteq DOMAIN user_tokens']_vars

C3_Witness ==
    /\ Cardinality(DOMAIN user_tokens) = 2
    /\ rq.pc = "sent"
    /\ sp.pc = "done" /\ sp.status = 200
    /\ cb.pc = "done" /\ callbacks = MaxLogins

\* C8: a gated request reaches the route, and the route sends to Jira, only
\* with a user_id that is present and a key of user_tokens and with a
\* session whose project_key is non-empty; otherwise it is rejected 401
\* (no user_id), else 401 (no session), else 400 (no project key), and no
\* step of the gate or of the route changes the session store.
C8_Gate ==
    /\ rq.pc \in {"read_token", "read_base", "route", "sent"} =>
          /\ ~Falsy(rq.uid)
          /\ rq.uid \in DOMAIN user_tokens
          /\ rq.data \in 1..Len(heap)
          /\ stored[rq.data].user_id = rq.uid
          /\ ~Falsy(heap[rq.data].project_key)
    /\ rq.pc = "rejected" =>
          \/ rq.status = 401 /\ rq.detail = MISSING_USER /\ Falsy(rq.uid)
          \/ /\ rq.status = 401 /\ rq.detail = NO_SESSION
             /\ ~Falsy(rq.uid) /\ rq.data = 0
          \/ /\ rq.status = 400 /\ rq.detail = NO_PROJECT
             /\ ~Falsy(rq.uid) /\ rq.uid \in DOMAIN user_tokens
             /\ rq.data \in 1..Len(heap)
    /\ (rq.pc # "idle" /\ Falsy(rq.uid)) =>
          rq.pc = "rejected" /\ rq.status = 401

C8_GateStep ==
    /\ rq' # rq => UNCHANGED store
    /\ rq.pc = "check_session" /\ rq' # rq =>
          IF rq.uid \in DOMAIN user_tokens
            THEN rq'.pc = "read_data"
            ELSE rq'.pc = "rejected" /\ rq'.status = 401
    /\ rq.pc = "check_project" /\ rq' # rq =>
          IF heap[rq.data].project_key \in {None, ""}
            THEN rq'.pc = "rejected" /\ rq'.status = 400
            ELSE rq'.pc = "read_token"

C8_AuthGate == [][C8_Gate' /\ C8_GateStep]_vars

C8_Witness ==
    /\ rq.pc = "sent"
    /\ heap[rq.data].project_key = "PROJ"
    /\ rq.pk = "PROJ"

\* C9: a callback without a code answers 400 and calls nothing; a token
\* exchange with a status other than 200 answers that status with the
\* upstream body and makes no further call; an empty resources list answers
\* 400; none of the three writes a session.
C9_Failures ==
    /\ (cb.pc # "idle" /\ Falsy(cb.code)) =>
          /\ cb.pc = "done" /\ cb.status = 400
          /\ cb.calls = << >> /\ cb.wrote = 0
    /\ (cb.token_status \notin {0, 200}) =>
          /\ cb.pc = "done" /\ cb.status = cb.token_status
          /\ cb.content = cb.upstream
          /\ cb.calls = <<TOKEN_URL>> /\ cb.wrote = 0
    /\ (Len(cb.calls) = 3 /\ cb.cloud_info = << >>) =>
          /\ cb.pc = "done" /\ cb.status = 400
          /\ cb.wrote = 0
    /\ (cb.pc = "done" /\ cb.status # 200) => cb.wrote = 0

C9_FailureStep ==
    (cb' # cb /\ cb'.wrote = 0) => UNCHANGED <<user_tokens, heap>>

C10_Step ==
    sp' # sp =>
      /\ user_tokens' = user_tokens
      /\ Len(heap') = Len(heap)
      /\ sp'.pc = "await_body" =>
            /\ sp'.uid \in DOMAIN user_tokens /\ ~Falsy(sp'.uid)
            /\ heap' = heap
      /\ (sp.pc # "await_body" /\ sp'.pc = "done") =>
            /\ Falsy(sp'.uid) \/ sp'.uid \notin DOMAIN user_tokens
            /\ sp'.status = 401
            /\ heap' = heap
      /\ (sp.pc = "await_body" /\ Falsy(sp'.project_key)) =>
            sp'.status = 400 /\ heap' = heap
      /\ (sp.pc = "await_body" /\ ~Falsy(sp'.project_key)) =>
            /\ sp'.status = 200
            /\ \A i \in 1..Len(heap) :
                  /\ heap'[i].access_token = heap[i].access_token
                  /\ heap'[i].cloud_id = heap[i].cloud_id
                  /\ heap'[i].base_url = heap[i].base_url
                  /\ heap'[i].project_key =
                        IF i = user_tokens[sp.uid]
                          THEN sp'.project_key
                          ELSE heap[i].project_key

C10_SetProjectFrame == [][C10_Step]_vars

C10_Witness ==
    /\ sp.pc = "done" /\ sp.status = 200
    /\ Cardinality(DOMAIN user_tokens) = 2
    /\ \E k \in DOMAIN user_tokens :
          k # sp.uid /\ heap[user_tokens[k]].project_key # sp.project_key

\* The step that completes a successful oauth_callback for key k.
LoginWrites(k) == cb.pc = "write" /\ cb'.wrote # 0 /\ cb.user_id = k

\* The gate lets the request through: line 154 finds a project_key.
GatePasses == rq.pc = "check_project" /\ rq'.pc = "read_token"

\* The session user_tokens holds for a stored key.
SessionOf(k) == heap[user_tokens[k]]

\* A successful login of k leaves k with a session without project_key,
\* whatever the session before held.
C11_LoginResets ==
    \A k \in DOMAIN user_tokens' :
        LoginWrites(k) => heap'[user_tokens'[k]].project_key = None

\* A project_key of k's session stays until a successful login of k.
C11_KeyHolds ==
    \A k \in DOMAIN user_tokens :
        ~Falsy(SessionOf(k).project_key) =>
            \/ LoginWrites(k)
            \/ /\ user_tokens'[k] = user_tokens[k]
               /\ ~Falsy(heap'[user_tokens'[k]].project_key)

\* C11 as stated: a successful login of u leaves u's session without a
\* project_key, a project_key stays until such a login, and while u's
\* session has no project_key no gated request of u passes the gate.
C11_EveryRequestRejectedUntilSetProject ==
    [][/\ C11_LoginResets
       /\ C11_KeyHolds
       /\ GatePasses => ~Falsy(SessionOf(rq.uid).project_key)]_vars

\* C11 as amended: a successful login of u leaves u's session without a
\* project_key and a project_key stays until such a login; a gated request
\* that read u's session (line 153) after the login is rejected with 400
\* as long as no set_project has stored a key in that session; a request
\* passes the gate while u's session has no project_key only when it read
\* the session the login replaced, and then on that session's project_key.
C11_RequestsAfterLoginRejected ==
    [][/\ C11_LoginResets
       /\ C11_KeyHolds
       /\ (rq.pc = "check_project" /\ rq' # rq
             /\ rq.data = user_tokens[rq.uid]
             /\ Falsy(SessionOf(rq.uid).project_key)) =>
             rq'.pc = "rejected" /\ rq'.status = 400
       /\ (GatePasses /\ Falsy(SessionOf(rq.uid).project_key)) =>
             /\ rq.data # user_tokens[rq.uid]
             /\ stored[rq.data].user_id = rq.uid
             /\ ~Falsy(heap[rq.data].project_key)]_vars

\* A request of a user who had set a project and logged in again, read from
\* the new session and rejected.
C11_Witness ==
    /\ rq.pc = "rejected" /\ rq.status = 400
    /\ Len(heap) = 2
    /\ stored[1].user_id = rq.uid /\ stored[2].user_id = rq.uid
    /\ heap[1].project_key = "PROJ"
    /\ rq.data = 2 /\ user_tokens[rq.uid] = 2
    /\ heap[2].project_key = None

(* ==================== claims on the stateless handlers ================ *)
JqlRoutes ==
    {"get_impact_by_label", "get_impact_by_component",
     "get_impact_by_module", "get_tickets_by_sprint",
     "get_tickets_by_priority"}

\* A search that was answered with a list of issues.
Searched == fw.route \in JqlRoutes /\ fw.answer.status = 200

SourceGiven == fw.source # None /\ fw.source # ""

\* What the heuristic asks of an Epic or Parent: a description with text
\* that holds one of the six words, in any letter case.
EpicLike(i) ==
    Lower(i.issuetype) \in
        {<<"e", "p", "i", "c">>, <<"p", "a", "r", "e", "n", "t">>}

Specified(i) ==
    /\ i.description.kind # "null"
    /\ i.description.text # << >>
    /\ \E word \in {<<"v", "e", "r", "i", "f", "y">>,
                    <<"c", "h", "e", "c", "k">>,
                    <<"v", "a", "l", "i", "d", "a", "t", "e">>,
                    <<"f", "l", "o", "w">>, <<"t", "e", "s", "t">>,
                    <<"s", "h", "o", "u", "l", "d">>} :
          Contains(Lower(TextOf(i.description)), word)

\* C4: with a source_ticket_key, no returned issue has that key; without
\* one, the only issues dropped are Epics and Parents the heuristic drops.
C4_SourceTicketExcluded ==
    Searched =>
        LET ups == fw.upstream.issues
            res == fw.answer.body
        IN  IF SourceGiven
              THEN \A j \in 1..Len(res) : res[j].key # fw.source
              ELSE Len(res) = Cardinality(
                       {x \in 1..Len(ups) :
                           ~(EpicLike(ups[x]) /\ ~Specified(ups[x]))})

C4_Witness ==
    /\ fw.route = "get_impact_by_label"
    /\ fw.source = "PROJ-1"
    /\ fw.answer.status = 200
    /\ Len(fw.upstream.issues) = 2
    /\ fw.upstream.issues[1].key = "PROJ-1"
    /\ fw.upstream.issues[1].issuetype = <<"S", "t", "o", "r", "y">>
    /\ fw.upstream.issues[2].key = "PROJ-2"
    /\ Len(fw.answer.body) = 1

\* The upstream positions the claim says are returned, and the n-th of a
\* set of positions.
KeptPositions ==
    {x \in 1..Len(fw.upstream.issues) :
        LET i == fw.upstream.issues[x]
        IN  /\ ~(SourceGiven /\ i.key = fw.source)
            /\ EpicLike(i) => Specified(i)}

Nth(positions, n) ==
    CHOOSE x \in positions : Cardinality({y \in positions : y <= x}) = n

\* C5: an Epic or Parent (in any letter case) is returned only with a
\* non-empty description whose lower-cased text holds one of the six words;
\* any other issue that is not the source ticket is returned; the returned
\* issues are in the upstream order.
C5_EpicParentHeuristic ==
    Searched =>
        LET kept == KeptPositions
        IN  fw.answer.body =
                [n \in 1..Cardinality(kept) |->
                    LET i == fw.upstream.issues[Nth(kept, n)]
                    IN  [key |-> i.key, summary |-> i.summary,
                         description |-> i.description]]

C5_Witness ==
    /\ Searched
    /\ Len(fw.upstream.issues) = 2
    /\ fw.upstream.issues[1].issuetype = <<"P", "A", "R", "E", "N", "T">>
    /\ fw.upstream.issues[1].description.text = <<"p", "l", "a", "n">>
    /\ fw.upstream.issues[2].issuetype = <<"E", "p", "i", "c">>
    /\ fw.upstream.issues[2].description.kind = "str"
    /\ Len(fw.answer.body) = 1
    /\ fw.answer.body[1].key = fw.upstream.issues[2].key

\* C6 as stated: every proxying route answers an upstream status that is
\* not a success with that same status.
C6_PassThroughEverywhere ==
    (fw.route # "none" /\ fw.upstream.status_code \notin 200..299) =>
        fw.answer.status = fw.upstream.status_code

\* C6 as amended: fetch_ticket answers an upstream status other than 200
\* with that status; every other proxying route answers an upstream 4xx or
\* 5xx status with 500.
C6_PassThroughOnlyInFetchTicket ==
    /\ (fw.route = "fetch_ticket" /\ fw.upstream.status_code # 200) =>
          fw.answer.status = fw.upstream.status_code
    /\ (fw.route \notin {"none", "fetch_ticket"}
          /\ fw.upstream.status_code \in 400..599) =>
          fw.answer.status = 500

C6_Witness ==
    /\ fw.route = "get_projects"
    /\ fw.upstream.status_code = 404
    /\ fw.answer.status = 500

\* The number of lines of a text: one more than its line breaks.
LineCount(t) == 1 + Cardinality({x \in 1..Len(t) : t[x] = "\n"})

\* C7: generate_csv answers a non-empty 'output' with 200 and a text/csv
\* attachment of one row per line, and only a missing or empty 'output'
\* with 400.
C7_CsvExported ==
    ex.route = "generate_csv" =>
        IF ex.data.has_output /\ ex.data.output # << >>
          THEN /\ ex.answer.status = 200
               /\ ex.answer.media_type = "text/csv"
               /\ Len(ex.answer.lines) = LineCount(ex.data.output)
          ELSE ex.answer.status = 400

=============================================================================
